---- MODULE Spec2Model ----
(***************************************************************************)
(* The thought ledger of the sequential-thinking server: the ThoughtData   *)
(* validators (sequential_thinking/models.py), the AppContext ledger and   *)
(* the sequentialthinking tool handler with its lazy initialisation, and   *)
(* the application lifespan (main.py).                                     *)
(***************************************************************************)
EXTENDS Integers, Sequences, FiniteSets, TLC

VARIABLES
    app_context,   \* the module global: None or the live AppContext
    lifespan,      \* "down" | "up": whether app_lifespan is between setup and teardown
    created,       \* number of AppContext objects constructed so far
    accepted,      \* number of submissions appended to the live AppContext
    pc,            \* per call slot: "idle" | "awaiting" (suspended in team.arun)
    frame,         \* per call slot: the locals of the suspended call
    out,           \* what the last step handed to its caller (a reply, or nothing)
    req            \* the submission under test of the single-step specification

vars == <<app_context, lifespan, created, accepted, pc, frame, out, req>>

-----------------------------------------------------------------------------
(* Optional values: None is the empty set, a present value x is {x}.      *)

None == {}

Some(x) == {x}

Get(v) == CHOOSE x \in v : TRUE

-----------------------------------------------------------------------------
(* Bounds of the model.                                                    *)

\* largest thoughtNumber / totalThoughts submitted in the single-step specification
MaxStepNumber == 6

\* largest revisesThought / branchFromThought submitted in the single-step specification
MaxStepRef == 3

\* most steps appended to one AppContext
MaxHistory == 2

\* most steps appended to one AppContext when thoughtNumbers are reused
MaxLookupHistory == 3

\* most AppContext objects constructed in one run
MaxContexts == 2

\* the call slots (concurrent tool invocations)
Calls == {"c1", "c2"}

BranchIds == {"b1", "b2"}

-----------------------------------------------------------------------------
(* sequential_thinking/settings.py and models.py: ThoughtData              *)

MIN_TOTAL_THOUGHTS == 5

\* The attributes the Settings object has once setup_logging() has run.
SettingsAttributes ==
    {"PORT", "logger_fastapi", "logger_team", "DEBUG", "DEBUG_AGENTS", "LOG_FOLDER",
     "WEB_SEARCH_TOOL", "LLM_PROVIDER", "DEEPSEEK_TEAM_MODEL_ID",
     "DEEPSEEK_AGENT_MODEL_ID", "GROQ_TEAM_MODEL_ID", "GROQ_AGENT_MODEL_ID",
     "OPENROUTER_TEAM_MODEL_ID", "OPENROUTER_AGENT_MODEL_ID", "OLLAMA_TEAM_MODEL_ID",
     "OLLAMA_AGENT_MODEL_ID"}

\* A validator's outcome: the value it returns, or the exception it raises.
Returns(v) == [raised |-> "none", msg |-> "", value |-> v]

Raises(exc, m, v) == [raised |-> exc, msg |-> m, value |-> v]

\* Field constraints of the schema (min_length=1, ge=1).
thought_field(v) ==
    IF Len(v) >= 1 THEN Returns(v)
    ELSE Raises("ValidationError", "thought: String should have at least 1 character", v)

ge1_field(name, v) ==
    IF v >= 1 THEN Returns(v)
    ELSE Raises("ValidationError", name, v)

optional_ge1_field(name, v) ==
    IF v = None \/ Get(v) >= 1 THEN Returns(v)
    ELSE Raises("ValidationError", name, v)

\* @field_validator('totalThoughts'): the branch below the minimum logs through
\* settings.logger before it returns the minimum.
validate_total_thoughts_minimum(v) ==
    IF v < MIN_TOTAL_THOUGHTS
    THEN IF "logger" \in SettingsAttributes
         THEN Returns(MIN_TOTAL_THOUGHTS)
         ELSE Raises("AttributeError", "'Settings' object has no attribute 'logger'", v)
    ELSE Returns(v)

\* info.data.get(name, default) over the fields validated so far.
DataGet(data, name, default) ==
    IF name \in DOMAIN data THEN data[name] ELSE default

\* Variant of validate_revises_thought: the equal case passes.
validate_revises_thought_gt(v, data) ==
    LET is_revision == DataGet(data, "isRevision", FALSE) IN
    IF v # None /\ ~is_revision
    THEN Raises("ValidationError", "revisesThought can only be set when isRevision is True", v)
    ELSE IF v # None /\ "thoughtNumber" \in DOMAIN data /\ Get(v) > data["thoughtNumber"]
    THEN Raises("ValidationError", "revisesThought must be less than thoughtNumber", v)
    ELSE Returns(v)

\* @field_validator('revisesThought')
validate_revises_thought(v, data) ==
    LET is_revision == DataGet(data, "isRevision", FALSE) IN
    IF v # None /\ ~is_revision
    THEN Raises("ValidationError", "revisesThought can only be set when isRevision is True", v)
    ELSE IF v # None /\ "thoughtNumber" \in DOMAIN data /\ Get(v) >= data["thoughtNumber"]
    THEN Raises("ValidationError", "revisesThought must be less than thoughtNumber", v)
    ELSE Returns(v)

\* Variant of validate_branch_id: the partner field is not looked at.
validate_branch_id_unchecked(v, data) == Returns(v)

\* @field_validator('branchId')
validate_branch_id(v, data) ==
    LET branch_from_thought == DataGet(data, "branchFromThought", None) IN
    IF v # None /\ branch_from_thought = None
    THEN Raises("ValidationError", "branchId can only be set when branchFromThought is set", v)
    ELSE Returns(v)

\* Variant of validate_thought_numbers: the equal case passes.
validate_thought_numbers_gt(self) ==
    IF self.branchFromThought # None /\ Get(self.branchFromThought) > self.thoughtNumber
    THEN Raises("ValidationError", "branchFromThought must be less than thoughtNumber", self)
    ELSE Returns(self)

\* @model_validator(mode='after')
validate_thought_numbers(self) ==
    IF self.branchFromThought # None /\ Get(self.branchFromThought) >= self.thoughtNumber
    THEN Raises("ValidationError", "branchFromThought must be less than thoughtNumber", self)
    ELSE Returns(self)

\* info.data when field number k is validated: the earlier fields that passed.
InfoData(valid, values) == [n \in valid |-> values[n]]

\* ThoughtData(...): pydantic validates the fields in declaration order and
\* collects the ValueErrors of all of them; any other exception raised by a
\* validator leaves the constructor at once, as itself. The model validator
\* runs only when every field passed.
ThoughtData(a) ==
    LET f_thought == thought_field(a.thought)
        f_number  == ge1_field("thoughtNumber: Input should be greater than or equal to 1",
                               a.thoughtNumber)
        f_total0  == ge1_field("totalThoughts: Input should be greater than or equal to 1",
                               a.totalThoughts)
        f_total   == IF f_total0.raised = "none"
                     THEN validate_total_thoughts_minimum(a.totalThoughts)
                     ELSE f_total0
        values5   == [thought |-> f_thought.value, thoughtNumber |-> f_number.value,
                      totalThoughts |-> f_total.value,
                      nextThoughtNeeded |-> a.nextThoughtNeeded,
                      isRevision |-> a.isRevision]
        valid5    == {"nextThoughtNeeded", "isRevision"}
                       \cup (IF f_thought.raised = "none" THEN {"thought"} ELSE {})
                       \cup (IF f_number.raised = "none" THEN {"thoughtNumber"} ELSE {})
                       \cup (IF f_total.raised = "none" THEN {"totalThoughts"} ELSE {})
        f_rev0    == optional_ge1_field(
                         "revisesThought: Input should be greater than or equal to 1",
                         a.revisesThought)
        f_rev     == IF f_rev0.raised = "none"
                     THEN validate_revises_thought(a.revisesThought,
                                                   InfoData(valid5, values5))
                     ELSE f_rev0
        f_from    == optional_ge1_field(
                         "branchFromThought: Input should be greater than or equal to 1",
                         a.branchFromThought)
        values7   == [thought |-> f_thought.value, thoughtNumber |-> f_number.value,
                      totalThoughts |-> f_total.value,
                      nextThoughtNeeded |-> a.nextThoughtNeeded,
                      isRevision |-> a.isRevision,
                      revisesThought |-> f_rev.value,
                      branchFromThought |-> f_from.value]
        valid7    == valid5
                       \cup (IF f_rev.raised = "none" THEN {"revisesThought"} ELSE {})
                       \cup (IF f_from.raised = "none" THEN {"branchFromThought"} ELSE {})
        f_id      == validate_branch_id(a.branchId, InfoData(valid7, values7))
        fields    == <<f_thought, f_number, f_total, f_rev, f_from, f_id>>
        errors    == {fields[i].msg :
                        i \in {j \in DOMAIN fields : fields[j].raised = "ValidationError"}}
        self      == [thought |-> f_thought.value, thoughtNumber |-> f_number.value,
                      totalThoughts |-> f_total.value,
                      nextThoughtNeeded |-> a.nextThoughtNeeded,
                      isRevision |-> a.isRevision,
                      revisesThought |-> f_rev.value,
                      branchFromThought |-> f_from.value,
                      branchId |-> f_id.value,
                      needsMoreThoughts |-> a.needsMoreThoughts]
        after     == validate_thought_numbers(self)
    IN  IF f_total.raised = "AttributeError"
        THEN [raised |-> "AttributeError", errors |-> {f_total.msg}, value |-> a]
        ELSE IF errors # {}
        THEN [raised |-> "ValidationError", errors |-> errors, value |-> a]
        ELSE IF after.raised # "none"
        THEN [raised |-> "ValidationError", errors |-> {after.msg}, value |-> a]
        ELSE [raised |-> "none", errors |-> {}, value |-> self]

-----------------------------------------------------------------------------
(* main.py: AppContext                                                     *)

\* AppContext(team=team): empty history, empty branch dictionary.
AppContext == [thought_history |-> <<>>, branches |-> <<>>]

\* Variant of add_thought: a revision overwrites the steps it revises.
add_thought_revises_in_place(self, thought) ==
    IF thought.isRevision /\ thought.revisesThought # None
       /\ \E i \in DOMAIN self.thought_history :
             self.thought_history[i].thoughtNumber = Get(thought.revisesThought)
    THEN [thought_history |->
             [i \in DOMAIN self.thought_history |->
                 IF self.thought_history[i].thoughtNumber = Get(thought.revisesThought)
                 THEN thought ELSE self.thought_history[i]],
          branches |-> self.branches]
    ELSE [thought_history |-> Append(self.thought_history, thought),
          branches |-> self.branches]

\* Variant of add_thought: a bucket takes only steps that branch from the
\* thoughtNumber its first step branched from.
add_thought_same_origin(self, thought) ==
    LET history == Append(self.thought_history, thought) IN
    IF thought.branchFromThought # None /\ thought.branchId # None
    THEN LET id == Get(thought.branchId) IN
         IF id \in DOMAIN self.branches
         THEN IF self.branches[id][1].branchFromThought = thought.branchFromThought
              THEN [thought_history |-> history,
                    branches |-> [self.branches EXCEPT ![id] = Append(@, thought)]]
              ELSE [thought_history |-> history, branches |-> self.branches]
         ELSE [thought_history |-> history,
               branches |-> self.branches @@ (id :> <<thought>>)]
    ELSE [thought_history |-> history, branches |-> self.branches]

\* Variant of add_thought: the step is appended to the history twice.
add_thought_duplicated(self, thought) ==
    LET history == Append(Append(self.thought_history, thought), thought) IN
    IF thought.branchFromThought # None /\ thought.branchId # None
    THEN LET id      == Get(thought.branchId)
             buckets == IF id \in DOMAIN self.branches
                        THEN self.branches
                        ELSE self.branches @@ (id :> <<>>)
         IN  [thought_history |-> history,
              branches |-> [buckets EXCEPT ![id] = Append(@, thought)]]
    ELSE [thought_history |-> history, branches |-> self.branches]

\* Variant of add_thought: the step goes into the history and no bucket.
add_thought_history_only(self, thought) ==
    [thought_history |-> Append(self.thought_history, thought),
     branches |-> self.branches]

\* Variant of add_thought: the bucket is replaced by the new step alone.
add_thought_new_bucket(self, thought) ==
    LET history == Append(self.thought_history, thought) IN
    IF thought.branchFromThought # None /\ thought.branchId # None
    THEN LET id == Get(thought.branchId)
         IN  [thought_history |-> history,
              branches |-> [b \in DOMAIN self.branches \cup {id} |->
                              IF b = id THEN <<thought>> ELSE self.branches[b]]]
    ELSE [thought_history |-> history, branches |-> self.branches]

\* Variant of add_thought: a branch step goes to its bucket only.
add_thought_bucket_only(self, thought) ==
    IF thought.branchFromThought # None /\ thought.branchId # None
    THEN LET id      == Get(thought.branchId)
             buckets == IF id \in DOMAIN self.branches
                        THEN self.branches
                        ELSE self.branches @@ (id :> <<>>)
         IN  [thought_history |-> self.thought_history,
              branches |-> [buckets EXCEPT ![id] = Append(@, thought)]]
    ELSE [thought_history |-> Append(self.thought_history, thought),
          branches |-> self.branches]

add_thought(self, thought) ==
    LET history == Append(self.thought_history, thought) IN
    IF thought.branchFromThought # None /\ thought.branchId # None
    THEN LET id      == Get(thought.branchId)
             buckets == IF id \in DOMAIN self.branches
                        THEN self.branches
                        ELSE self.branches @@ (id :> <<>>)
         IN  [thought_history |-> history,
              branches |-> [buckets EXCEPT ![id] = Append(@, thought)]]
    ELSE [thought_history |-> history, branches |-> self.branches]

get_branch_thoughts(self, branch_id) ==
    IF branch_id \in DOMAIN self.branches THEN self.branches[branch_id] ELSE <<>>

get_all_branches(self) ==
    [branch_id \in DOMAIN self.branches |-> Len(self.branches[branch_id])]

\* thought_history and branches of the module global, empty while it is None
HistoryOf(context) == IF context = None THEN <<>> ELSE Get(context).thought_history

BranchesOf(context) == IF context = None THEN <<>> ELSE Get(context).branches

-----------------------------------------------------------------------------
(* main.py: the sequentialthinking tool                                    *)

NoReply == [kind |-> "none"]

\* Variant of adjusted_next_thought_needed: the last estimated step is not final.
adjusted_next_thought_needed_gt(current_input_thought) ==
    IF current_input_thought.thoughtNumber > current_input_thought.totalThoughts
       /\ ~current_input_thought.needsMoreThoughts
    THEN FALSE
    ELSE current_input_thought.nextThoughtNeeded

\* adjusted_next_thought_needed
adjusted_next_thought_needed(current_input_thought) ==
    IF current_input_thought.thoughtNumber >= current_input_thought.totalThoughts
       /\ ~current_input_thought.needsMoreThoughts
    THEN FALSE
    ELSE current_input_thought.nextThoughtNeeded

\* for hist_thought in history: if hist_thought.thoughtNumber == n: text; break
RECURSIVE find_thought_text(_, _, _)
find_thought_text(history, n, default) ==
    IF history = <<>> THEN default
    ELSE IF Head(history).thoughtNumber = n THEN Some(Head(history).thought)
    ELSE find_thought_text(Tail(history), n, default)

\* input_prompt, built after the append from thought_history[:-1]
input_prompt(context, t) ==
    LET earlier == SubSeq(context.thought_history, 1, Len(context.thought_history) - 1) IN
    IF t.isRevision /\ t.revisesThought # None
    THEN [thoughtNumber |-> t.thoughtNumber, relation |-> "REVISION",
          of |-> t.revisesThought, id |-> None,
          text |-> find_thought_text(earlier, Get(t.revisesThought), None),
          content |-> t.thought]
    ELSE IF t.branchFromThought # None /\ t.branchId # None
    THEN [thoughtNumber |-> t.thoughtNumber, relation |-> "BRANCH",
          of |-> t.branchFromThought, id |-> t.branchId,
          text |-> find_thought_text(earlier, Get(t.branchFromThought), None),
          content |-> t.thought]
    ELSE [thoughtNumber |-> t.thoughtNumber, relation |-> "none",
          of |-> None, id |-> None, text |-> None, content |-> t.thought]

\* Variant of ledger_after: a revision is recorded only when some recorded step
\* carries the thoughtNumber it revises.
ledger_after_target_checked(context, made) ==
    IF made.raised # "none" THEN context
    ELSE IF made.value.isRevision /\ made.value.revisesThought # None
            /\ \A i \in DOMAIN context.thought_history :
                  context.thought_history[i].thoughtNumber
                      # Get(made.value.revisesThought)
         THEN context
         ELSE add_thought(context, made.value)

\* Variant of ledger_after: the step is recorded with the derived flag in place
\* of the nextThoughtNeeded the caller gave.
ledger_after_stores_derived(context, made) ==
    IF made.raised = "none"
    THEN add_thought(context,
            [made.value EXCEPT !.nextThoughtNeeded =
                                   adjusted_next_thought_needed(made.value)])
    ELSE context

\* Variant of ledger_after: nothing is appended before the delegate is called.
ledger_after_unappended(context, made) == context

\* Variant of ledger_after: the submission is appended before it is validated.
ledger_after_append_first(context, made) == add_thought(context, made.value)

\* The ledger after ThoughtData(...) ended with `made`: the append is reached only
\* when the constructor returned; both except handlers leave the ledger alone.
ledger_after(context, made) ==
    IF made.raised = "none" THEN add_thought(context, made.value) ELSE context

\* The reply of a call whose ThoughtData(...) raised.
rejection(p, made) ==
    IF made.raised = "ValidationError"
    THEN [kind |-> "validation", call |-> p, errors |-> made.errors]
    ELSE [kind |-> "unexpected", call |-> p, errors |-> made.errors]

\* Variant of sequentialthinking: every call initialises the context anew,
\* whether or not one is present.
sequentialthinking_reinitialising(p, a) ==
    /\ pc[p] = "idle"
    /\ created < MaxContexts
    /\ \E team_created \in BOOLEAN :
        /\ IF ~team_created
           THEN /\ out' = [kind |-> "critical", call |-> p]
                /\ UNCHANGED <<app_context, lifespan, created, accepted, pc, frame, req>>
           ELSE LET made  == ThoughtData(a)
                    after == ledger_after(AppContext, made)
                IN  /\ app_context' = Some(after)
                    /\ created' = created + 1
                    /\ accepted' = IF made.raised = "none" THEN 1 ELSE 0
                    /\ IF made.raised = "none"
                       THEN /\ pc' = [pc EXCEPT ![p] = "awaiting"]
                            /\ frame' = [frame EXCEPT ![p] = Some(
                                 [current_input_thought |-> made.value,
                                  adjusted_next_thought_needed |->
                                      adjusted_next_thought_needed(made.value),
                                  input_prompt |-> input_prompt(after, made.value)])]
                            /\ out' = NoReply
                       ELSE /\ out' = rejection(p, made)
                            /\ UNCHANGED <<pc, frame>>
                    /\ UNCHANGED <<lifespan, req>>

\* Variant of sequentialthinking: a context is stored although creating the
\* team failed.
sequentialthinking_failed_init_kept(p, a) ==
    /\ pc[p] = "idle"
    /\ app_context = None => created < MaxContexts
    /\ \E team_created \in BOOLEAN :
        /\ app_context # None => team_created
        /\ IF ~team_created
           THEN /\ out' = [kind |-> "critical", call |-> p]
                /\ app_context' = Some(AppContext)
                /\ created' = created + 1
                /\ accepted' = 0
                /\ UNCHANGED <<lifespan, pc, frame, req>>
           ELSE LET context == IF app_context = None THEN AppContext ELSE Get(app_context)
                    made    == ThoughtData(a)
                    after   == ledger_after(context, made)
                    fresh   == IF app_context = None THEN 1 ELSE 0
                    base    == IF app_context = None THEN 0 ELSE accepted
                IN  /\ app_context' = Some(after)
                    /\ created' = created + fresh
                    /\ accepted' = base + (IF made.raised = "none" THEN 1 ELSE 0)
                    /\ IF made.raised = "none"
                       THEN /\ pc' = [pc EXCEPT ![p] = "awaiting"]
                            /\ frame' = [frame EXCEPT ![p] = Some(
                                 [current_input_thought |-> made.value,
                                  adjusted_next_thought_needed |->
                                      adjusted_next_thought_needed(made.value),
                                  input_prompt |-> input_prompt(after, made.value)])]
                            /\ out' = NoReply
                       ELSE /\ out' = rejection(p, made)
                            /\ UNCHANGED <<pc, frame>>
                    /\ UNCHANGED <<lifespan, req>>

\* The call up to its suspension in `await app_context.team.arun(input_prompt)`:
\* lazy initialisation, validation, the derived flag, the append, the prompt.
sequentialthinking(p, a) ==
    /\ pc[p] = "idle"
    /\ app_context = None => created < MaxContexts
    /\ \E team_created \in BOOLEAN :
        /\ app_context # None => team_created
        /\ IF ~team_created
           THEN /\ out' = [kind |-> "critical", call |-> p]
                /\ UNCHANGED <<app_context, lifespan, created, accepted, pc, frame, req>>
           ELSE LET context == IF app_context = None THEN AppContext ELSE Get(app_context)
                    made    == ThoughtData(a)
                    after   == ledger_after(context, made)
                    fresh   == IF app_context = None THEN 1 ELSE 0
                    base    == IF app_context = None THEN 0 ELSE accepted
                IN  /\ app_context' = Some(after)
                    /\ created' = created + fresh
                    /\ accepted' = base + (IF made.raised = "none" THEN 1 ELSE 0)
                    /\ IF made.raised = "none"
                       THEN /\ pc' = [pc EXCEPT ![p] = "awaiting"]
                            /\ frame' = [frame EXCEPT ![p] = Some(
                                 [current_input_thought |-> made.value,
                                  adjusted_next_thought_needed |->
                                      adjusted_next_thought_needed(made.value),
                                  input_prompt |-> input_prompt(after, made.value)])]
                            /\ out' = NoReply
                       ELSE /\ out' = rejection(p, made)
                            /\ UNCHANGED <<pc, frame>>
                    /\ UNCHANGED <<lifespan, req>>

\* What team.arun can hand back: an object with a content attribute (possibly
\* None), or a plain string, which has none.
TeamResponses ==
    {[has_content |-> TRUE, content |-> Some("synthesis")],
     [has_content |-> TRUE, content |-> None],
     [has_content |-> FALSE, content |-> Some("Team has processed the input")]}

\* coordinator_response
coordinator_response(team_response) ==
    LET coordinator_response_content ==
            IF team_response.has_content THEN team_response.content ELSE None
    IN  IF coordinator_response_content # None
        THEN Get(coordinator_response_content)
        ELSE ""

\* additional_guidance
additional_guidance(adjusted) ==
    IF ~adjusted THEN "This is the final thought" ELSE "Guidance for next step"

\* result_data, read from the module global at the time the delegate returned
result_data(context, f, team_response) ==
    LET t == f.current_input_thought IN
    [processedThoughtNumber |-> t.thoughtNumber,
     estimatedTotalThoughts |-> t.totalThoughts,
     nextThoughtNeeded |-> f.adjusted_next_thought_needed,
     coordinatorResponse |-> <<coordinator_response(team_response),
                               additional_guidance(f.adjusted_next_thought_needed)>>,
     branches |-> DOMAIN context.branches,
     thoughtHistoryLength |-> Len(context.thought_history),
     branchDetails |->
        [currentBranchId |-> IF t.branchFromThought # None THEN t.branchId
                             ELSE Some("main"),
         branchOriginThought |-> t.branchFromThought,
         allBranches |-> get_all_branches(context)],
     isRevision |-> t.isRevision,
     revisesThought |-> IF t.isRevision THEN t.revisesThought ELSE None,
     isBranch |-> t.branchFromThought # None,
     status |-> "success"]

\* team.arun returned: the result is assembled and its coordinatorResponse is
\* the reply (team_response is kept beside it to tell what the delegate gave). With the global unset, app_context.branches raises and the
\* generic handler answers.
delegate_returns(p) ==
    /\ pc[p] = "awaiting"
    /\ \E team_response \in TeamResponses :
        out' = IF app_context = None
               THEN [kind |-> "unexpected", call |-> p,
                     errors |-> {"'NoneType' object has no attribute 'branches'"}]
               ELSE LET data == result_data(Get(app_context), Get(frame[p]),
                                            team_response)
                    IN  [kind |-> "response", call |-> p,
                         text |-> data.coordinatorResponse, result_data |-> data,
                         team_response |-> team_response]
    /\ pc' = [pc EXCEPT ![p] = "idle"]
    /\ frame' = [frame EXCEPT ![p] = None]
    /\ UNCHANGED <<app_context, lifespan, created, accepted, req>>

\* Variant of Returned: the whole result_data is handed back.
Returned_result_data(reply) == reply.result_data

\* What a successful call hands back: return result_data["coordinatorResponse"],
\* the coordinator's text followed by the guidance, and nothing else.
Returned(reply) == [coordinatorResponse |-> reply.text]

\* Variant of delegate_raises: the failed call takes its step back out of the
\* history.
delegate_raises_rollback(p) ==
    /\ pc[p] = "awaiting"
    /\ out' = [kind |-> "unexpected", call |-> p, errors |-> {"team.arun"}]
    /\ pc' = [pc EXCEPT ![p] = "idle"]
    /\ frame' = [frame EXCEPT ![p] = None]
    /\ app_context' =
          IF app_context = None THEN app_context
          ELSE IF Get(app_context).thought_history = <<>> THEN app_context
          ELSE LET context == Get(app_context) IN
               Some([context EXCEPT !.thought_history =
                        SubSeq(@, 1, Len(@) - 1)])
    /\ UNCHANGED <<lifespan, created, accepted, req>>

\* team.arun raised an Exception: except Exception answers.
delegate_raises(p) ==
    /\ pc[p] = "awaiting"
    /\ out' = [kind |-> "unexpected", call |-> p, errors |-> {"team.arun"}]
    /\ pc' = [pc EXCEPT ![p] = "idle"]
    /\ frame' = [frame EXCEPT ![p] = None]
    /\ UNCHANGED <<app_context, lifespan, created, accepted, req>>

\* Variant of delegate_cancelled: the generic handler catches the cancellation
\* and answers with its failure text.
delegate_cancelled_as_reply(p) ==
    /\ pc[p] = "awaiting"
    /\ out' = [kind |-> "unexpected", call |-> p, errors |-> {"CancelledError"}]
    /\ pc' = [pc EXCEPT ![p] = "idle"]
    /\ frame' = [frame EXCEPT ![p] = None]
    /\ UNCHANGED <<app_context, lifespan, created, accepted, req>>

\* The call is cancelled while suspended: CancelledError is re-raised and is
\* no Exception, so it leaves the handler.
delegate_cancelled(p) ==
    /\ pc[p] = "awaiting"
    /\ out' = [kind |-> "cancelled", call |-> p]
    /\ pc' = [pc EXCEPT ![p] = "idle"]
    /\ frame' = [frame EXCEPT ![p] = None]
    /\ UNCHANGED <<app_context, lifespan, created, accepted, req>>

-----------------------------------------------------------------------------
(* main.py: app_lifespan                                                   *)

\* Setup: a new AppContext replaces whatever the global held.
lifespan_setup ==
    /\ lifespan = "down"
    /\ created < MaxContexts
    /\ app_context' = Some(AppContext)
    /\ created' = created + 1
    /\ accepted' = 0
    /\ lifespan' = "up"
    /\ out' = NoReply
    /\ UNCHANGED <<pc, frame, req>>

\* Teardown (the finally clause): the global is reset.
lifespan_teardown ==
    /\ lifespan = "up"
    /\ app_context' = None
    /\ accepted' = 0
    /\ lifespan' = "down"
    /\ out' = NoReply
    /\ UNCHANGED <<created, pc, frame, req>>

-----------------------------------------------------------------------------
(* The submissions callers make.                                           *)

Optional(S) == {None} \cup {Some(x) : x \in S}

\* Single-step specification: every field takes valid and invalid values, and
\* thoughtNumber and totalThoughts lie on both sides of MIN_TOTAL_THOUGHTS.
StepInputs ==
    [thought : {<<>>, <<"a">>},
     thoughtNumber : 0 .. MaxStepNumber,
     totalThoughts : -1 .. MaxStepNumber,
     nextThoughtNeeded : BOOLEAN,
     isRevision : BOOLEAN,
     revisesThought : Optional(0 .. MaxStepRef),
     branchFromThought : Optional(0 .. MaxStepRef),
     branchId : Optional(BranchIds),
     needsMoreThoughts : BOOLEAN]

\* Ledger specification: the kinds of step a caller sends, over two texts, the
\* numbers 1..3 and two branch ids. Each family holds accepted and refused
\* members (a reference not below the step's own number, a missing partner
\* field, a total below the minimum).
Submission(text, number, total, is_revision, revises, from, id) ==
    [thought |-> text, thoughtNumber |-> number, totalThoughts |-> total,
     nextThoughtNeeded |-> TRUE, isRevision |-> is_revision,
     revisesThought |-> revises, branchFromThought |-> from, branchId |-> id,
     needsMoreThoughts |-> FALSE]

PlainSteps ==
    {Submission(text, number, total, FALSE, None, None, None) :
        text \in {<<"a">>, <<"b">>}, number \in 1 .. 2,
        total \in {MIN_TOTAL_THOUGHTS}}
    \cup {Submission(<<"a">>, 1, MIN_TOTAL_THOUGHTS - 1, FALSE, None, None, None)}

RevisionSteps ==
    {Submission(<<"a">>, 2, MIN_TOTAL_THOUGHTS, is_revision, revises, None, None) :
        is_revision \in BOOLEAN, revises \in Optional(1 .. 2)}

BranchSteps ==
    {Submission(<<"b">>, 3, MIN_TOTAL_THOUGHTS, FALSE, None, from, id) :
        from \in Optional(2 .. 3), id \in Optional(BranchIds)}
    \cup {Submission(<<"a">>, 2, MIN_TOTAL_THOUGHTS, FALSE, None, Some(1), Some(id)) :
        id \in BranchIds}

LedgerInputs == PlainSteps \cup RevisionSteps \cup BranchSteps

-----------------------------------------------------------------------------
(* Specifications                                                          *)

\* The module as imported: app_context = None, no call under way.
Init ==
    /\ app_context = None
    /\ lifespan = "down"
    /\ created = 0
    /\ accepted = 0
    /\ pc = [p \in Calls |-> "idle"]
    /\ frame = [p \in Calls |-> None]
    /\ out = NoReply
    /\ req = None

Next ==
    \/ \E a \in LedgerInputs :
          /\ sequentialthinking("c1", a)
          /\ Len(HistoryOf(app_context')) <= MaxHistory
    \/ delegate_returns("c1")
    \/ delegate_raises("c1")
    \/ delegate_cancelled("c1")
    \/ lifespan_setup
    \/ lifespan_teardown

Spec == Init /\ [][Next]_vars

\* One submission, drawn from StepInputs, made once to a fresh process.
StepInit ==
    /\ app_context = None
    /\ lifespan = "down"
    /\ created = 0
    /\ accepted = 0
    /\ pc = [p \in Calls |-> "idle"]
    /\ frame = [p \in Calls |-> None]
    /\ out = NoReply
    /\ req \in StepInputs

StepNext ==
    \/ out = NoReply /\ sequentialthinking("c1", req)
    \/ delegate_returns("c1")
    \/ delegate_raises("c1")
    \/ delegate_cancelled("c1")

StepSpec == StepInit /\ [][StepNext]_vars

\* Calls that reuse a thoughtNumber and then revise or branch from it: the
\* ledger of Spec with fewer kinds of submission and a longer history.
LookupInputs ==
    {Submission(text, 1, MIN_TOTAL_THOUGHTS, FALSE, None, None, None) :
        text \in {<<"a">>, <<"b">>}}
    \cup {Submission(<<"a">>, 2, MIN_TOTAL_THOUGHTS, TRUE, Some(1), None, None),
          Submission(<<"b">>, 2, MIN_TOTAL_THOUGHTS, FALSE, None, Some(1), Some("b1"))}

LookupNext ==
    \/ \E a \in LookupInputs :
          /\ sequentialthinking("c1", a)
          /\ Len(HistoryOf(app_context')) <= MaxLookupHistory
    \/ delegate_returns("c1")
    \/ delegate_raises("c1")
    \/ delegate_cancelled("c1")
    \/ lifespan_setup
    \/ lifespan_teardown

LookupSpec == Init /\ [][LookupNext]_vars

\* Two MCP sessions on the one server process, each with a call slot of its
\* own. The tool takes no session argument, so a session is told apart here
\* by the text it submits: "c1" sends <<"a">>, "c2" sends <<"b">>.
SessionText == [p \in Calls |-> IF p = "c1" THEN <<"a">> ELSE <<"b">>]

SessionInputs(p) ==
    {Submission(SessionText[p], 1, MIN_TOTAL_THOUGHTS, FALSE, None, None, None),
     Submission(SessionText[p], 2, MIN_TOTAL_THOUGHTS, FALSE, None, Some(1),
                Some(IF p = "c1" THEN "b1" ELSE "b2"))}

\* Calls of the two sessions interleave where the handler awaits the delegate.
SessionNext ==
    \/ \E p \in Calls : \E a \in SessionInputs(p) :
          /\ sequentialthinking(p, a)
          /\ Len(HistoryOf(app_context')) <= MaxHistory
    \/ \E p \in Calls : delegate_returns(p)
    \/ \E p \in Calls : delegate_raises(p)
    \/ \E p \in Calls : delegate_cancelled(p)
    \/ lifespan_setup
    \/ lifespan_teardown

SessionSpec == Init /\ [][SessionNext]_vars

-----------------------------------------------------------------------------
(* What a caller or a reader of the ledger observes.                       *)

History == HistoryOf(app_context)

Branches == BranchesOf(app_context)

\* The call of the single-step specification got past lazy initialisation.
Processed == pc["c1"] = "awaiting" \/ out.kind \notin {"none", "critical"}

\* The call was answered with an error and left nothing in the ledger.
Refused ==
    /\ out.kind \in {"validation", "unexpected"}
    /\ History = <<>>
    /\ DOMAIN Branches = {}

\* The submission was recorded as the only step of the ledger.
Recorded == Len(History) = 1

Max(x, y) == IF x >= y THEN x ELSE y

\* The single-step rules of the data model on every field but totalThoughts.
OtherFieldsWellFormed(a) ==
    /\ Len(a.thought) >= 1
    /\ a.thoughtNumber >= 1
    /\ a.isRevision <=> a.revisesThought # None
    /\ a.revisesThought # None =>
          Get(a.revisesThought) >= 1 /\ Get(a.revisesThought) < a.thoughtNumber
    /\ a.branchId # None <=> a.branchFromThought # None
    /\ a.branchFromThought # None =>
          Get(a.branchFromThought) >= 1 /\ Get(a.branchFromThought) < a.thoughtNumber

-----------------------------------------------------------------------------
(* Claims                                                                  *)

\* C1: a submission whose other fields are well-formed and whose totalThoughts
\* is at least 1 is accepted and recorded with totalThoughts = max(5, supplied):
\* a value below 5 is raised to 5, a value of 5 or more is kept.
C1_TotalIsClampedAndRecorded ==
    (Processed /\ OtherFieldsWellFormed(req) /\ req.totalThoughts >= 1)
        => /\ Recorded
           /\ History[1].totalThoughts = Max(MIN_TOTAL_THOUGHTS, req.totalThoughts)

\* C2: for an accepted step the derived continuation flag is FALSE when
\* thoughtNumber >= the stored totalThoughts and needsMoreThoughts is FALSE, and
\* is the supplied nextThoughtNeeded otherwise; the reply carries that flag.
C2_Derived ==
    IF req.thoughtNumber >= History[1].totalThoughts /\ ~req.needsMoreThoughts
    THEN FALSE
    ELSE req.nextThoughtNeeded

C2_DerivedContinuation ==
    /\ pc["c1"] = "awaiting" =>
          Get(frame["c1"]).adjusted_next_thought_needed = C2_Derived
    /\ out.kind = "response" => out.result_data.nextThoughtNeeded = C2_Derived

\* C2 witness: thoughtNumber 5 of 5 with nextThoughtNeeded and without
\* needsMoreThoughts is accepted and its derived flag is FALSE.
C2_Witness ==
    /\ pc["c1"] = "awaiting"
    /\ req.thoughtNumber = 5 /\ req.totalThoughts = 5
    /\ req.nextThoughtNeeded /\ ~req.needsMoreThoughts
    /\ ~Get(frame["c1"]).adjusted_next_thought_needed

\* C3: a submission with isRevision = TRUE and no revisesThought is refused and
\* not recorded.
C3_RevisionNeedsTarget ==
    (Processed /\ req.isRevision /\ req.revisesThought = None) => Refused

\* C4: a submission whose revisesThought is >= its thoughtNumber is refused,
\* for every such pair.
C4_RevisesNotBelowRefused ==
    (Processed /\ req.revisesThought # None
               /\ Get(req.revisesThought) >= req.thoughtNumber) => Refused

\* C4 witness: revisesThought = 3 = thoughtNumber on an otherwise valid revision
\* was submitted and answered with the validation error of that rule.
C4_Witness ==
    /\ req.isRevision /\ req.revisesThought = Some(3) /\ req.thoughtNumber = 3
    /\ req.totalThoughts >= MIN_TOTAL_THOUGHTS /\ Len(req.thought) >= 1
    /\ req.branchFromThought = None /\ req.branchId = None
    /\ out.kind = "validation"
    /\ out.errors = {"revisesThought must be less than thoughtNumber"}

\* C5: a submission with a revisesThought (a thought number, >= 1) and
\* isRevision = FALSE is refused with a validation error whose reason names
\* that field combination.
C5_RevisesWithoutFlagNamed ==
    (Processed /\ ~req.isRevision /\ req.revisesThought # None
               /\ Get(req.revisesThought) >= 1)
        => /\ Refused
           /\ out.kind = "validation"
           /\ "revisesThought can only be set when isRevision is True" \in out.errors

\* C6: a submission with a branchId and no branchFromThought is refused and not
\* recorded.
C6_BranchIdNeedsOrigin ==
    (Processed /\ req.branchId # None /\ req.branchFromThought = None) => Refused

\* C6 witness: an otherwise valid step with branchId "b1" and no
\* branchFromThought was answered with the validation error of that rule.
C6_Witness ==
    /\ req.branchId = Some("b1") /\ req.branchFromThought = None
    /\ req.thoughtNumber = 2 /\ req.totalThoughts >= MIN_TOTAL_THOUGHTS
    /\ Len(req.thought) >= 1 /\ ~req.isRevision /\ req.revisesThought = None
    /\ out.kind = "validation"
    /\ out.errors = {"branchId can only be set when branchFromThought is set"}

\* C7: a submission with a branchFromThought and no branchId is refused and not
\* recorded.
C7_OriginNeedsBranchId ==
    (Processed /\ req.branchFromThought # None /\ req.branchId = None) => Refused

\* C8: a submission whose branchFromThought is >= its thoughtNumber is refused,
\* and every recorded step with a branchFromThought has it below its thoughtNumber.
C8_OriginBelowNumber ==
    /\ (Processed /\ req.branchFromThought # None
                  /\ Get(req.branchFromThought) >= req.thoughtNumber) => Refused
    /\ \A i \in DOMAIN History :
          History[i].branchFromThought # None =>
              Get(History[i].branchFromThought) < History[i].thoughtNumber

\* C8 witness: branchFromThought = 2 = thoughtNumber with a branchId on an
\* otherwise valid step was answered with the validation error of that rule.
C8_Witness ==
    /\ req.branchFromThought = Some(2) /\ req.thoughtNumber = 2
    /\ req.branchId = Some("b1") /\ req.totalThoughts >= MIN_TOTAL_THOUGHTS
    /\ Len(req.thought) >= 1 /\ ~req.isRevision /\ req.revisesThought = None
    /\ out.kind = "validation"
    /\ out.errors = {"branchFromThought must be less than thoughtNumber"}

\* C9: a call answered with a validation error leaves history and branches as
\* they were before the call, and the answer carries a reason.
C9_RejectionChangesNothing ==
    [][out'.kind = "validation"
          => /\ HistoryOf(app_context') = History
             /\ BranchesOf(app_context') = Branches
             /\ out'.errors # {}]_vars

\* C9 witness: a call was answered with a validation error while the ledger
\* held a branch step.
C9_Witness ==
    /\ out.kind = "validation"
    /\ Len(History) >= 1
    /\ DOMAIN Branches # {}

\* C10: the history of the live ledger is as long as the number of submissions
\* accepted on it.
C10_HistoryCountsAccepted == Len(History) = accepted

\* C10 witness: two submissions were accepted, a revision and a branch step,
\* and a later call was refused.
C10_Witness ==
    /\ accepted = 2
    /\ \E i \in DOMAIN History : History[i].isRevision
    /\ \E i \in DOMAIN History : History[i].branchId # None
    /\ out.kind = "validation"

\* The steps of a history that carry branch id b, in history order.
RECURSIVE Carrying(_, _)
Carrying(history, b) ==
    IF history = <<>> THEN <<>>
    ELSE IF Head(history).branchId = Some(b)
         THEN <<Head(history)>> \o Carrying(Tail(history), b)
         ELSE Carrying(Tail(history), b)

\* C11: for every branch id b the bucket of b is the subsequence of history
\* of the steps carrying b, in history order; the keys of branches are the ids
\* carried by some step, and get_all_branches gives each bucket's length.
C11_BucketsMirrorHistory ==
    app_context # None =>
        LET context == Get(app_context) IN
        /\ \A b \in BranchIds :
              get_branch_thoughts(context, b) = Carrying(context.thought_history, b)
        /\ DOMAIN context.branches =
              {b \in BranchIds : Carrying(context.thought_history, b) # <<>>}
        /\ \A b \in DOMAIN context.branches :
              get_all_branches(context)[b] = Len(Carrying(context.thought_history, b))

\* C11 witness: two accepted steps carry "b1" and its count is 2.
C11_Witness ==
    /\ app_context # None
    /\ Len(Carrying(History, "b1")) = 2
    /\ get_all_branches(Get(app_context))["b1"] = 2

\* C12: while one AppContext is the live ledger, every step of the program
\* leaves the recorded steps in place and unchanged and adds at most one entry,
\* at the end: the old history is a prefix of the new one. (Setup and teardown
\* of the lifespan do not edit a ledger, they put another or none in its place.)
C12_HistoryAppendOnly ==
    [][(app_context # None /\ app_context' # None /\ created' = created)
          => /\ Len(HistoryOf(app_context')) \in {Len(History), Len(History) + 1}
             /\ SubSeq(HistoryOf(app_context'), 1, Len(History)) = History]_vars

\* C12 witness: a revision was accepted after the step it revises, and both
\* are in the history.
C12_Witness ==
    /\ Len(History) = 2
    /\ History[2].isRevision
    /\ History[2].revisesThought = Some(History[1].thoughtNumber)

\* C13: when team.arun raises while a call is suspended on it, the call answers
\* with the generic failure reply and the ledger is exactly what it was before
\* the failure: the step the call appended stays in thought_history and in its
\* branch bucket.
C13_DelegateFailureKeepsStep ==
    [][\A p \in Calls :
          (pc[p] = "awaiting" /\ pc'[p] = "idle"
           /\ out'.kind = "unexpected" /\ out'.errors = {"team.arun"})
          => /\ app_context' = app_context
             /\ HistoryOf(app_context') = History
             /\ BranchesOf(app_context') = Branches]_vars

\* C13 witness: the delegate failed on a branch step, and the step is the last
\* of the history and of its bucket.
C13_Witness ==
    /\ out.kind = "unexpected"
    /\ out.errors = {"team.arun"}
    /\ app_context # None
    /\ Len(History) >= 1
    /\ History[Len(History)].branchId = Some("b1")
    /\ LET bucket == get_branch_thoughts(Get(app_context), "b1")
       IN  bucket # <<>> /\ bucket[Len(bucket)] = History[Len(History)]

\* The text of the most recently accepted step of a history that carries
\* thoughtNumber n, or None when no step carries it.
RECURSIVE MostRecentText(_, _)
MostRecentText(history, n) ==
    IF history = <<>> THEN None
    ELSE IF history[Len(history)].thoughtNumber = n
         THEN Some(history[Len(history)].thought)
         ELSE MostRecentText(SubSeq(history, 1, Len(history) - 1), n)

\* C14: whenever a call that revises or branches from thoughtNumber n is
\* accepted, the text it hands to the delegate as the original (or the origin)
\* is that of the most recently accepted earlier step numbered n, and is none
\* when no earlier step is numbered n.
C14_LookupMostRecent ==
    [][(pc["c1"] = "idle" /\ pc'["c1"] = "awaiting")
          => LET prompt  == Get(frame'["c1"]).input_prompt
                 history == HistoryOf(app_context')
                 earlier == SubSeq(history, 1, Len(history) - 1)
             IN  prompt.relation # "none"
                    => prompt.text = MostRecentText(earlier, Get(prompt.of))]_vars

\* C15: every session has a ledger of its own: the ledger a call of a session
\* works on while it is under way holds only steps that this session
\* submitted, and the counts and branch ids a call is answered with cover only
\* its own session's steps.
C15_SessionsIsolated ==
    /\ \A p \in Calls :
          pc[p] = "awaiting" =>
              \A i \in DOMAIN History : History[i].thought = SessionText[p]
    /\ out.kind = "response" =>
          \A i \in DOMAIN History : History[i].thought = SessionText[out.call]

\* C16: with calls of several callers interleaving, in every state a call or a
\* reader can see, each step of thought_history that carries a branchId is an
\* entry of branches[branchId], and each entry of a bucket is a step of
\* thought_history: no append is ever seen half done.
C16_NoTornAppend ==
    /\ \A i \in DOMAIN History :
          History[i].branchId # None =>
              /\ Get(History[i].branchId) \in DOMAIN Branches
              /\ \E j \in DOMAIN Branches[Get(History[i].branchId)] :
                    Branches[Get(History[i].branchId)][j] = History[i]
    /\ \A b \in DOMAIN Branches :
          \A j \in DOMAIN Branches[b] :
              \E i \in DOMAIN History : History[i] = Branches[b][j]

\* C16 witness: two calls are suspended on the delegate at the same time, both
\* appended a step, and one of the steps is in a bucket.
C16_Witness ==
    /\ pc["c1"] = "awaiting"
    /\ pc["c2"] = "awaiting"
    /\ Len(History) = 2
    /\ History[1] = Get(frame["c1"]).current_input_thought
    /\ History[2] = Get(frame["c2"]).current_input_thought
    /\ "b2" \in DOMAIN Branches

\* C17: a submission whose other fields are well-formed is accepted and
\* recorded whatever integer its totalThoughts is, zero and negative values
\* included, and the recorded totalThoughts is max(5, supplied).
C17_TotalNeverRejects ==
    (Processed /\ OtherFieldsWellFormed(req))
        => /\ out.kind \notin {"validation", "unexpected"}
           /\ Recorded
           /\ History[1].totalThoughts = Max(MIN_TOTAL_THOUGHTS, req.totalThoughts)

\* C18: a submission whose other fields are well-formed and whose thoughtNumber
\* is above its totalThoughts after the clamp, max(5, supplied), is accepted and
\* recorded, with needsMoreThoughts set or not.
C18_NumberAboveTotalAccepted ==
    (/\ Processed
     /\ OtherFieldsWellFormed(req)
     /\ req.totalThoughts >= 1
     /\ req.thoughtNumber > Max(MIN_TOTAL_THOUGHTS, req.totalThoughts))
        => /\ Recorded
           /\ History[1].thoughtNumber = req.thoughtNumber
           /\ History[1].needsMoreThoughts = req.needsMoreThoughts

\* C19: a branch step that passes validation is accepted and appended to the
\* end of branches[branchId] whatever that bucket holds: when the bucket's
\* steps branched from another thoughtNumber the new step still joins them, in
\* acceptance order.
C19_BucketTakesAnyOrigin ==
    [][\A p \in Calls :
          (pc[p] = "idle" /\ pc'[p] = "awaiting")
          => LET step == Get(frame'[p]).current_input_thought IN
             (app_context # None /\ step.branchFromThought # None
                                 /\ step.branchId # None)
             => /\ HistoryOf(app_context') = Append(History, step)
                /\ BranchesOf(app_context')[Get(step.branchId)] =
                      Append(get_branch_thoughts(Get(app_context),
                                                 Get(step.branchId)), step)]_vars

\* C19 witness: bucket "b1" holds two steps, accepted one after the other, that
\* branch from different thoughtNumbers.
C19_Witness ==
    /\ "b1" \in DOMAIN Branches
    /\ Len(Branches["b1"]) = 2
    /\ Branches["b1"][1].branchFromThought # Branches["b1"][2].branchFromThought
    /\ History = Branches["b1"]

\* C20: whatever the ledger holds, a revision submission that the data model
\* passes can be made and is then accepted and appended to the history, also
\* when no recorded step carries the thoughtNumber it revises; and one that the
\* data model refuses is refused on every ledger.
C20_AcceptanceIgnoresLedger ==
    \A a \in RevisionSteps :
        (/\ pc["c1"] = "idle"
         /\ app_context = None => created < MaxContexts
         /\ Len(History) < MaxHistory)
        => IF ThoughtData(a).raised = "none"
           THEN ENABLED (/\ sequentialthinking("c1", a)
                         /\ pc'["c1"] = "awaiting"
                         /\ HistoryOf(app_context')
                               = Append(History, ThoughtData(a).value))
           ELSE ~ENABLED (/\ sequentialthinking("c1", a)
                          /\ HistoryOf(app_context') # History)

\* C20 witness: the last recorded step is a revision of a thoughtNumber that no
\* step of the history carries.
C20_Witness ==
    /\ Len(History) >= 1
    /\ History[Len(History)].isRevision
    /\ History[Len(History)].revisesThought # None
    /\ \A i \in DOMAIN History :
          History[i].thoughtNumber # Get(History[Len(History)].revisesThought)

\* C21: in every reachable state every step held in thought_history or in a
\* branch bucket has a non-empty thought, thoughtNumber >= 1, totalThoughts >= 5,
\* a revisesThought exactly when isRevision and then below thoughtNumber, and a
\* branchId exactly when it has a branchFromThought and then branchFromThought
\* below thoughtNumber.
C21_RecordedStepsWellFormed ==
    /\ \A i \in DOMAIN History :
          OtherFieldsWellFormed(History[i])
          /\ History[i].totalThoughts >= MIN_TOTAL_THOUGHTS
    /\ \A b \in DOMAIN Branches : \A j \in DOMAIN Branches[b] :
          OtherFieldsWellFormed(Branches[b][j])
          /\ Branches[b][j].totalThoughts >= MIN_TOTAL_THOUGHTS

\* The kinds of answer that are a text handed back to the caller.
TextReplies == {"critical", "validation", "unexpected", "response"}

\* C22: every call that was not cancelled is answered with a text and raises
\* nothing: a validation failure with a text carrying the reasons, a fault of
\* the delegate or of the code around it with the generic failure text, and an
\* accepted submission with the text the delegate returned.
C22_EveryCallRepliesText ==
    /\ out.kind \in TextReplies \cup {"none", "cancelled"}
    /\ out.kind = "validation" => out.errors # {}
    /\ out.kind = "response" =>
          out.text[1] = IF out.team_response.content = None THEN ""
                        ELSE Get(out.team_response.content)

\* The entries of result_data other than the coordinator's text.
ResultFields ==
    {"processedThoughtNumber", "estimatedTotalThoughts", "nextThoughtNeeded",
     "branches", "thoughtHistoryLength", "branchDetails", "isRevision",
     "revisesThought", "isBranch"}

\* C23 as stated: what a successful call hands back to the caller holds the
\* step's thoughtNumber and totalThoughts, the derived flag, the branch ids and
\* their counts, the history length and the revision and branch details.
C23_ReplyCarriesResult ==
    out.kind = "response" => ResultFields \subseteq DOMAIN Returned(out)

\* C23 amended: a successful call assembles result_data from the accepted step
\* and the ledger (thoughtNumber, stored totalThoughts, derived flag, branch ids
\* and per-branch counts, history length, revision and branch details) and hands
\* back only its coordinatorResponse: the coordinator's text and the guidance.
C23_OnlyCoordinatorResponseReturned ==
    out.kind = "response" =>
        LET data == out.result_data
            step == History[1]
        IN  /\ DOMAIN Returned(out) = {"coordinatorResponse"}
            /\ Returned(out).coordinatorResponse = data.coordinatorResponse
            /\ data.coordinatorResponse =
                  <<coordinator_response(out.team_response),
                    additional_guidance(adjusted_next_thought_needed(step))>>
            /\ data.processedThoughtNumber = req.thoughtNumber
            /\ data.estimatedTotalThoughts = step.totalThoughts
            /\ data.nextThoughtNeeded = adjusted_next_thought_needed(step)
            /\ data.branches = DOMAIN Branches
            /\ data.branchDetails.allBranches = get_all_branches(Get(app_context))
            /\ data.thoughtHistoryLength = Len(History)
            /\ data.isRevision = req.isRevision
            /\ data.revisesThought = (IF req.isRevision THEN req.revisesThought ELSE None)
            /\ data.isBranch = (req.branchFromThought # None)
            /\ data.branchDetails.branchOriginThought = req.branchFromThought
            /\ data.branchDetails.currentBranchId =
                  (IF req.branchFromThought # None THEN req.branchId ELSE Some("main"))

\* C23 witness: a branch step was accepted and answered; the assembled result
\* names its branch with one step, the reply is the text alone.
C23_Witness ==
    /\ out.kind = "response"
    /\ out.result_data.isBranch
    /\ out.result_data.branches = {"b1"}
    /\ out.result_data.branchDetails.allBranches["b1"] = 1
    /\ out.result_data.thoughtHistoryLength = 1
    /\ DOMAIN Returned(out) = {"coordinatorResponse"}

\* C24: within a call the order is validate, append, delegate. While the call
\* is suspended on team.arun its submission has passed ThoughtData and is the
\* recorded step; a submission that ThoughtData refuses never reaches the
\* delegate (the call is never suspended and is answered by neither the
\* delegate's return, its failure nor a cancellation); and every handled
\* submission that ThoughtData passes is recorded.
C24_ValidateAppendDelegate ==
    LET made == ThoughtData(req) IN
    /\ pc["c1"] = "awaiting" =>
          /\ made.raised = "none"
          /\ History = <<made.value>>
          /\ Get(frame["c1"]).current_input_thought = made.value
    /\ made.raised # "none" =>
          /\ pc["c1"] = "idle"
          /\ out.kind \in {"none", "critical", "validation", "unexpected"}
          /\ out.kind = "unexpected" => out.errors # {"team.arun"}
          /\ History = <<>>
    /\ (Processed /\ made.raised = "none") => History = <<made.value>>

\* C24 witness: a branch step passed validation, is recorded in the history and
\* its bucket, and the call is suspended on the delegate.
C24_Witness ==
    /\ pc["c1"] = "awaiting"
    /\ out = NoReply
    /\ req.branchId = Some("b2")
    /\ Len(History) = 1
    /\ "b2" \in DOMAIN Branches
    /\ Branches["b2"] = History

\* C25: the recorded step keeps the nextThoughtNeeded the caller gave, also
\* when the derived flag was forced to FALSE, and the reply ends with the
\* final-thought guidance exactly when the derived flag is FALSE and with the
\* next-step guidance otherwise.
C25_DerivedFlagNotStored ==
    LET forced == /\ req.thoughtNumber >= History[1].totalThoughts
                  /\ ~req.needsMoreThoughts
        derived == IF forced THEN FALSE ELSE req.nextThoughtNeeded
    IN  /\ Recorded => History[1].nextThoughtNeeded = req.nextThoughtNeeded
        /\ out.kind = "response" =>
              /\ out.text[2] = "This is the final thought" <=> ~derived
              /\ out.text[2] = "Guidance for next step" <=> derived

\* C25 witness: thought 5 of 5 with nextThoughtNeeded TRUE was answered with the
\* final-thought guidance and is recorded with nextThoughtNeeded TRUE.
C25_Witness ==
    /\ out.kind = "response"
    /\ req.thoughtNumber = 5 /\ req.totalThoughts = 5
    /\ ~req.needsMoreThoughts
    /\ req.nextThoughtNeeded
    /\ History[1].nextThoughtNeeded
    /\ out.text[2] = "This is the final thought"

\* The call in slot p performs its append on this step of the program.
Appends(p) == pc[p] = "idle" /\ pc'[p] = "awaiting"

\* C26: with calls of two callers interleaving on one ledger, a call that passed
\* validation adds exactly its own step at the end of the history at the moment
\* of its append, and no other step of a call (a refusal, the delegate's return,
\* its failure, a cancellation) changes the history: so the history holds one
\* entry per accepted call, in the order of the appends, none lost and none
\* twice, and the buckets hold the same steps in the same order.
C26_NoLostOrDuplicatedAppend ==
    [][/\ \A p \in Calls :
             Appends(p) =>
                 HistoryOf(app_context')
                     = Append(History, Get(frame'[p]).current_input_thought)
       /\ ((\A p \in Calls : ~Appends(p)) /\ lifespan' = lifespan)
             => HistoryOf(app_context') = History
       /\ lifespan' = lifespan =>
             /\ Len(HistoryOf(app_context')) = accepted'
             /\ \A b \in BranchIds :
                   get_branch_thoughts([thought_history |-> <<>>,
                                        branches |-> BranchesOf(app_context')], b)
                       = Carrying(HistoryOf(app_context'), b)]_vars

\* C26 witness: both calls have finished, the second caller's step was appended
\* first and the first caller's branch step after it.
C26_Witness ==
    /\ pc["c1"] = "idle"
    /\ pc["c2"] = "idle"
    /\ accepted = 2
    /\ Len(History) = 2
    /\ History[1].thought = SessionText["c2"]
    /\ History[2].thought = SessionText["c1"]
    /\ "b1" \in DOMAIN Branches
    /\ Branches["b1"] = <<History[2]>>

\* C27: a call that was suspended on the delegate and whose delegate neither
\* raised nor was cancelled is answered with the delegate's response, not with
\* an error, also when the lifespan reset app_context to None or put a new
\* context in its place while the call was suspended.
C27_ReturnSurvivesLifespan ==
    [][\A p \in Calls :
          (/\ pc[p] = "awaiting"
           /\ pc'[p] = "idle"
           /\ out'.kind # "cancelled"
           /\ ~(out'.kind = "unexpected" /\ out'.errors = {"team.arun"}))
          => out'.kind = "response"]_vars

\* C28: as long as the lifespan neither starts nor tears down, a step of the
\* program that finds a context present keeps that context (none is
\* constructed, the global stays set, what the ledger holds stays in it), and a
\* step that finds none constructs at most one; so calls arriving while
\* app_context is unset share the one ledger the first of them created.
C28_OneLazyLedger ==
    [][lifespan' = lifespan =>
          /\ app_context # None =>
                /\ created' = created
                /\ app_context' # None
                /\ SubSeq(HistoryOf(app_context'), 1, Len(History)) = History
                /\ \A b \in DOMAIN Branches :
                      /\ b \in DOMAIN BranchesOf(app_context')
                      /\ SubSeq(BranchesOf(app_context')[b], 1, Len(Branches[b]))
                            = Branches[b]
          /\ app_context = None =>
                /\ created' \in {created, created + 1}
                /\ created' = created + 1 <=> app_context' # None]_vars

\* C28 witness: the lifespan never ran, the one context was created by a call,
\* and the steps of both callers are in it.
C28_Witness ==
    /\ lifespan = "down"
    /\ created = 1
    /\ app_context # None
    /\ Len(History) = 2
    /\ \E i, j \in DOMAIN History :
          /\ History[i].thought = SessionText["c1"]
          /\ History[j].thought = SessionText["c2"]

\* C29: a call answered with the critical-error text found app_context unset
\* and leaves it unset, records nothing, suspends on no delegate and constructs
\* no context; it can be given for any submission, valid or not; and after it a
\* further call runs the initialisation again and can succeed.
C29_FailedInitLeavesUnset ==
    /\ [][out'.kind = "critical" =>
             /\ app_context = None
             /\ app_context' = None
             /\ pc' = pc
             /\ frame' = frame
             /\ created' = created]_vars
    /\ [](out.kind = "critical" =>
             /\ app_context = None
             /\ History = <<>>
             /\ pc["c1"] = "idle" /\ created < MaxContexts =>
                   \A a \in LedgerInputs :
                       /\ ENABLED (sequentialthinking("c1", a)
                                   /\ out'.kind = "critical")
                       /\ ENABLED (sequentialthinking("c1", a)
                                   /\ app_context' # None
                                   /\ created' = created + 1))

\* C29 witness: a call was answered with the critical-error text after an
\* earlier context had been torn down, and nothing is set.
C29_Witness ==
    /\ out.kind = "critical"
    /\ app_context = None
    /\ created = 1
    /\ pc["c1"] = "idle"

\* C30: a call that leaves its suspension on the delegate ends with the
\* delegate's response, with a failure text or with the cancellation itself; a
\* cancellation is never turned into a text reply, it leaves the handler as
\* CancelledError carrying no reply; and it leaves the ledger as it was, the
\* call's appended step still in thought_history and in its bucket.
C30_CancellationPropagates ==
    [][\A p \in Calls :
          (pc[p] = "awaiting" /\ pc'[p] = "idle") =>
              /\ out'.kind \in {"response", "unexpected", "cancelled"}
              /\ out'.kind = "unexpected" => "CancelledError" \notin out'.errors
              /\ out'.kind = "cancelled" =>
                    /\ DOMAIN out' = {"kind", "call"}
                    /\ out'.call = p
                    /\ app_context' = app_context
                    /\ HistoryOf(app_context') = History
                    /\ BranchesOf(app_context') = Branches]_vars

\* C30 witness: a call was cancelled after appending a branch step, which is
\* the last step of the history and of bucket "b2".
C30_Witness ==
    /\ out.kind = "cancelled"
    /\ app_context # None
    /\ Len(History) >= 1
    /\ History[Len(History)].branchId = Some("b2")
    /\ "b2" \in DOMAIN Branches
    /\ Branches["b2"][Len(Branches["b2"])] = History[Len(History)]

====
